---- MODULE Spec2Model ----
(***************************************************************************)
(* State-machine model of DMTCP's fork/exec wrappers                       *)
(* (src/src/execwrappers.cpp).                                             *)
(*                                                                         *)
(* One supervised process with several user threads and one checkpoint     *)
(* thread.  Every thread may call fork() or dmtcp_execvpe() (the body of   *)
(* the whole exec family).  Each wrapper is cut into steps at the points   *)
(* where it touches process-wide state (the wrapper-execution lock, the    *)
(* file-scope statics child_time / childCoordinatorSocket /                *)
(* pthread_atfork_enabled, descriptors, the environment), so that other    *)
(* threads interleave exactly there.  A forked child is single-threaded    *)
(* and runs on a snapshot of the parent's memory; its part of fork() is    *)
(* computed by pure operators on that snapshot.                            *)
(*                                                                         *)
(* Strings are sequences of symbols (a symbol is a chunk of characters:    *)
(* "/", "lib", "ssh", ...), so that BaseName, strStartsWith and            *)
(* strEndsWith are computed, not assumed.                                  *)
(***************************************************************************)
EXTENDS Integers, Sequences, FiniteSets, TLC

\* ------------------------------------------------------------------------
\* Bounds of the model
\* ------------------------------------------------------------------------
MaxCalls == 2       \* wrapper calls made by the user threads, in total
MaxTime  == 2       \* largest value of the wall clock time(NULL)
MaxEnvLen == 3      \* longest envp given to the environment patcher

Threads == {"t1", "t2"}
CkptThread == "ckpt"

\* ------------------------------------------------------------------------
\* Strings and paths
\* ------------------------------------------------------------------------
RECURSIVE LastSlash(_, _)
LastSlash(s, n) ==
  IF n = 0 THEN 0 ELSE IF s[n] = "/" THEN n ELSE LastSlash(s, n - 1)

BaseName(s) == SubSeq(s, LastSlash(s, Len(s)) + 1, Len(s))

strStartsWith(s, prefix) ==
  Len(s) >= Len(prefix) /\ SubSeq(s, 1, Len(prefix)) = prefix

strEndsWith(s, suffix) ==
  Len(s) >= Len(suffix) /\ SubSeq(s, Len(s) - Len(suffix) + 1, Len(s)) = suffix

F_ls       == <<"/", "bin", "/", "ls">>
F_ssh      == <<"/", "bin", "/", "ssh">>
F_command  == <<"dmtcp_command">>
F_restart  == <<"/", "bin", "/", "dmtcp_restart">>
F_libc     == <<"/", "lib", "/", "lib", "c.so">>
F_libssh   == <<"/", "lib", "/", "lib", "/", "ssh">>
F_utempter == <<"/", "x", "/", "utempter">>
F_su       == <<"/", "bin", "/", "su">>
F_lib64ut  == <<"/", "lib64", "/", "lib", "/", "utempter">>
F_hello32  == <<"/", "bin", "/", "hello32">>

\* the targets the user threads exec
Filenames == {F_ls, F_ssh, F_command, F_restart, F_libc, F_libssh,
              F_utempter, F_su, F_lib64ut}

\* what a PRE_EXEC subscriber may write over the carried filename
HookRewrites == {F_command, F_restart}

\* the files of the file system that have the setuid bit
SetuidFiles == {F_su, F_utempter}

isSetuid(path) == path \in SetuidFiles

\* the assertion with dmtcp_restart left out of it
IsSelfToolButRestart(programName) ==
  \/ programName = <<"dmtcp_coordinator">>
  \/ programName = <<"dmtcp_launch">>
  \/ programName = <<"mtcp_restart">>

\* dmtcp_execvpe(), lines 697-703: the names the JASSERT rejects
IsSelfTool(programName) ==
  \/ programName = <<"dmtcp_coordinator">>
  \/ programName = <<"dmtcp_launch">>
  \/ programName = <<"dmtcp_restart">>
  \/ programName = <<"mtcp_restart">>

ArgvInputs == {<< <<"a0">>, <<"/dev/pts/v", "1">> >>}

\* ------------------------------------------------------------------------
\* Environments: a (possibly NULL) vector of key/value entries; a value is
\* the sequence of its colon-separated segments, << >> the empty string.
\* ------------------------------------------------------------------------
ENV_VAR_HIJACK_LIBS     == "DMTCP_HIJACK_LIBS"
ENV_VAR_HIJACK_LIBS_M32 == "DMTCP_HIJACK_LIBS_M32"
ENV_VAR_ORIG_LD_PRELOAD == "DMTCP_ORIG_LD_PRELOAD"
LD_PRELOAD              == "LD_PRELOAD"

ourImportantEnvs ==
  <<ENV_VAR_HIJACK_LIBS, ENV_VAR_HIJACK_LIBS_M32, ENV_VAR_ORIG_LD_PRELOAD>>

EnvKeys == {ENV_VAR_HIJACK_LIBS, ENV_VAR_HIJACK_LIBS_M32,
            ENV_VAR_ORIG_LD_PRELOAD, LD_PRELOAD}

Unset == [set |-> FALSE, val |-> << >>]
Val(v) == [set |-> TRUE, val |-> v]

Entry(k, v) == [key |-> k, val |-> v]
NullEnv == [null |-> TRUE, ents |-> << >>]
Env(es) == [null |-> FALSE, ents |-> es]

EnvInputs ==
  { NullEnv,
    Env(<< Entry(LD_PRELOAD, << <<"u.so">> >>),
           Entry(ENV_VAR_ORIG_LD_PRELOAD, << <<"x.so">> >>) >>) }

\* ------------------------------------------------------------------------
\* Process identity
\* ------------------------------------------------------------------------
UniquePid(h, p, tm) == [hostid |-> h, pid |-> p, time |-> tm]

PROTECTED_COORD_FD    == 821
PROTECTED_LIFEBOAT_FD == 822
BadFd == -1

VARIABLES
  workerState,            \* WorkerState::currentState()
  holders,                \* who holds the wrapper-execution lock
  pc,                     \* each thread's position
  call,                   \* each thread's current call and its arguments
  loc,                    \* each thread's locals of the current call
  trace,                  \* the steps the current call has performed
  callsLeft,              \* calls the user threads may still make
  child_time,             \* static uint64_t child_time
  childCoordinatorSocket, \* static int childCoordinatorSocket
  pthread_atfork_enabled, \* static bool pthread_atfork_enabled
  thisProcess,            \* UniquePid::ThisProcess()
  procEnv,                \* the process environment (getenv/setenv)
  openFds,                \* the open descriptors this model follows
  patchedArgvLive,        \* the argv of patchArgvIfSetuid is allocated
  childTable,             \* ProcessInfo's children: pid -> identity
  children,               \* the processes the OS created for this one
  nextPid,                \* the pid the OS gives the next child
  now,                    \* time(NULL)
  procStatus              \* "running", or how the process image ended

threadVars == <<pc, call, loc, trace, callsLeft>>
forkStatics == <<child_time, childCoordinatorSocket, pthread_atfork_enabled>>
procVars == <<thisProcess, procEnv, openFds, patchedArgvLive, procStatus>>
osVars == <<childTable, children, nextPid, now>>
ckptVars == <<workerState>>

vars == <<ckptVars, holders, threadVars, forkStatics, procVars, osVars>>

\* ------------------------------------------------------------------------
\* Locals of a call, and the arguments the OS exec primitive was given
\* ------------------------------------------------------------------------
NoExec == [called |-> FALSE, file |-> << >>, argv |-> << >>, envp |-> NullEnv]
OsExec(f, a, e) == [called |-> TRUE, file |-> f, argv |-> a, envp |-> e]

NoCall == [op |-> "none", filename |-> << >>, argv |-> << >>, envp |-> NullEnv]

NoLoc ==
  [ckpt         |-> FALSE,    \* isPerformingCkptRestart() at entry
   lockAcquired |-> FALSE,    \* __wrapperExecutionLockAcquired
   host         |-> "",       \* fork: host
   childPid     |-> 0,        \* fork: childPid
   savedTime    |-> 0,        \* fork: the value time(NULL) gave this call
   filename     |-> << >>,    \* exec: data.preExec.filename
   argv         |-> << >>,    \* exec: data.preExec.argv
   envp         |-> NullEnv,  \* exec: data.preExec.envp
   newFilename  |-> << >>,    \* exec: newFilename
   newArgv      |-> << >>,    \* exec: newArgv
   newEnv       |-> NullEnv,  \* exec: newEnv
   envAtPatch   |-> [k \in EnvKeys |-> Unset],
                              \* exec: the process environment that
                              \* patchUserEnv() found
   osExec       |-> NoExec,   \* the arguments given to _real_execvpe
   retVal       |-> 0,        \* the value returned to the caller
   errno        |-> "unchanged"]  \* errno as this call leaves it

\* The process image is alive and no call is at its return.  Returning is
\* local to the thread (it only drops the call's locals), so it is taken
\* right after the step that ends the call.
Running == procStatus = "running" /\ \A u \in Threads : pc[u] # "ret"

\* ------------------------------------------------------------------------
\* The wrapper-execution lock (WRAPPER_EXECUTION_GET_EXCL_LOCK /
\* WRAPPER_EXECUTION_RELEASE_EXCL_LOCK): exclusive, blocking.
\* ------------------------------------------------------------------------
LockIsFree == holders = {}

AcquireExcl(who) == holders' = holders \cup {who}

ReleaseExcl(who, acquired) ==
  holders' = IF acquired THEN holders \ {who} ELSE holders

\* a test that takes only a restart for "in progress"
isPerformingRestartOnly == workerState = "RESTARTING"

\* isPerformingCkptRestart()
isPerformingCkptRestart ==
  workerState # "UNKNOWN" /\ workerState # "RUNNING"

\* ------------------------------------------------------------------------
\* The child side of a fork.  A child starts as a copy of the parent:
\* its identity, its statics, its descriptors and its lock word.
\* ------------------------------------------------------------------------
Snapshot(kind, pid) ==
  [pid        |-> pid,
   kind       |-> kind,
   identity   |-> thisProcess,
   coordSock  |-> PROTECTED_COORD_FD,
   holders    |-> holders,
   enabled    |-> pthread_atfork_enabled,
   child_time |-> child_time,
   sock       |-> childCoordinatorSocket,
   fds        |-> openFds,
   atforkRan  |-> FALSE,
   trace      |-> << >>,
   exec       |-> NoExec]

\* pthread_atfork_child() without the hand-over of childCoordinatorSocket
pthread_atfork_childKeepsSocket(c) ==
  IF ~c.enabled THEN c
  ELSE [c EXCEPT
          !.enabled   = FALSE,
          !.atforkRan = TRUE,
          !.holders   = {},
          !.identity  = UniquePid(c.identity.hostid, c.pid, c.child_time),
          !.trace     = @ \o <<"resetLocks", "UniquePid_resetOnFork",
                               "initializeLogFile", "ProcessInfo_resetOnFork",
                               "DmtcpWorker_resetOnFork">>]

\* pthread_atfork_child(), run by libc's fork in the child
pthread_atfork_child(c) ==
  IF ~c.enabled THEN c
  ELSE [c EXCEPT
          !.enabled   = FALSE,
          !.atforkRan = TRUE,
          !.holders   = {},                       \* ThreadSync::resetLocks
          !.identity  = UniquePid(c.identity.hostid, c.pid, c.child_time),
          !.coordSock = c.sock,                   \* CoordinatorAPI::resetOnFork
          !.trace     = @ \o <<"resetLocks", "UniquePid_resetOnFork",
                               "initializeLogFile", "ProcessInfo_resetOnFork",
                               "CoordinatorAPI_resetOnFork",
                               "DmtcpWorker_resetOnFork">>]

\* the child branch with the thread list reset ahead of the atfork handler
ForkChildBranchThreadsFirst(c) ==
  LET c0 == [c EXCEPT !.trace = @ \o <<"ThreadList_resetOnFork">>]
      c1 == pthread_atfork_child(c0)
  IN  [c1 EXCEPT !.trace   = @ \o <<"return">>,
                 !.enabled = FALSE]

\* fork(), lines 161-199, on the branch childPid == 0
ForkChildBranch(c) ==
  LET c1 == pthread_atfork_child(c)
  IN  [c1 EXCEPT !.trace   = @ \o <<"ThreadList_resetOnFork", "return">>,
                 !.enabled = FALSE]

\* a raw fork that runs no atfork handler (_real_syscall(SYS_fork)) or
\* runs them (_real_fork)
RawForkChild(c, handlers) ==
  LET c1 == IF handlers THEN pthread_atfork_child(c) ELSE c
  IN  [c1 EXCEPT !.trace = @ \o <<"return">>]

\* ------------------------------------------------------------------------
\* Initial state: the library is loaded, the worker not yet initialised.
\* ------------------------------------------------------------------------
InitialPreloads == {<< >>, << <<"p.so">> >>}

Init ==
  /\ workerState = "UNKNOWN"
  /\ holders = {}
  /\ pc = [t \in Threads |-> "idle"]
  /\ call = [t \in Threads |-> NoCall]
  /\ loc = [t \in Threads |-> NoLoc]
  /\ trace = [t \in Threads |-> << >>]
  /\ callsLeft = MaxCalls
  /\ child_time = 0
  /\ childCoordinatorSocket = BadFd
  /\ pthread_atfork_enabled = FALSE
  /\ thisProcess = UniquePid("host0", 1, 0)
  /\ \E p \in InitialPreloads :
       procEnv = [k \in EnvKeys |->
                    CASE k = ENV_VAR_HIJACK_LIBS -> Val(<< <<"libdmtcp.so">> >>)
                      [] k = ENV_VAR_HIJACK_LIBS_M32 -> Unset
                      [] OTHER -> IF p = << >> THEN Unset ELSE Val(p)]
  /\ openFds = {PROTECTED_COORD_FD}
  /\ patchedArgvLive = FALSE
  /\ childTable = {}
  /\ children = {}
  /\ nextPid = 2
  /\ now = 1
  /\ procStatus = "running"

\* ------------------------------------------------------------------------
\* The environment of the wrappers: the clock, the worker's
\* initialisation and the checkpoint thread.
\* ------------------------------------------------------------------------
WorkerInitialized ==
  /\ Running
  /\ workerState = "UNKNOWN"
  /\ workerState' = "RUNNING"
  /\ UNCHANGED <<holders, threadVars, forkStatics, procVars, osVars>>

\* the checkpoint thread takes the lock, then leaves RUNNING
CkptBegin ==
  /\ Running
  /\ workerState = "RUNNING"
  /\ LockIsFree
  /\ AcquireExcl(CkptThread)
  /\ workerState' = "CHECKPOINTING"
  /\ UNCHANGED <<threadVars, forkStatics, procVars, osVars>>

CkptEnd ==
  /\ Running
  /\ workerState = "CHECKPOINTING"
  /\ workerState' = "RUNNING"
  /\ ReleaseExcl(CkptThread, TRUE)
  /\ UNCHANGED <<threadVars, forkStatics, procVars, osVars>>

\* ------------------------------------------------------------------------
\* fork()
\* ------------------------------------------------------------------------
\* The user threads are interchangeable: the first call of a run is t1's.
CanCall(t) ==
  /\ Running /\ pc[t] = "idle" /\ callsLeft > 0
  /\ t = "t1" \/ callsLeft < MaxCalls

\* the wrapper returns loc[t].retVal to its caller; its locals end
Return(t) ==
  /\ procStatus = "running" /\ pc[t] = "ret"
  /\ pc' = [pc EXCEPT ![t] = "idle"]
  /\ call' = [call EXCEPT ![t] = NoCall]
  /\ loc' = [loc EXCEPT ![t] = NoLoc]
  /\ trace' = [trace EXCEPT ![t] = << >>]
  /\ UNCHANGED <<ckptVars, holders, callsLeft, forkStatics, procVars, osVars>>

Step(t, label) == trace' = [trace EXCEPT ![t] = @ \o <<label>>]

\* lines 133-141: entry and the checkpoint-in-progress test
ForkEntry(t) ==
  /\ CanCall(t)
  /\ callsLeft' = callsLeft - 1
  /\ call' = [call EXCEPT ![t] = [NoCall EXCEPT !.op = "fork"]]
  /\ loc' = [loc EXCEPT ![t] = [NoLoc EXCEPT !.ckpt = isPerformingCkptRestart]]
  /\ trace' = [trace EXCEPT ![t] = << >>]
  /\ pc' = [pc EXCEPT ![t] = IF isPerformingCkptRestart THEN "f_bypass"
                             ELSE "f_lock"]
  /\ UNCHANGED <<ckptVars, holders, forkStatics, procVars, osVars>>

\* lines 136-140: the raw fork of the bypass
ForkBypass(t) ==
  /\ Running /\ pc[t] = "f_bypass"
  /\ \E ok \in BOOLEAN, handlers \in BOOLEAN :
       IF ok
       THEN /\ children' = children \cup
                 {RawForkChild(Snapshot("bypass", nextPid), handlers)}
            /\ nextPid' = nextPid + 1
            /\ loc' = [loc EXCEPT ![t].retVal = nextPid, ![t].childPid = nextPid]
       ELSE /\ loc' = [loc EXCEPT ![t].retVal = -1, ![t].childPid = -1,
                                  ![t].errno = "EAGAIN"]
            /\ UNCHANGED <<children, nextPid>>
  /\ Step(t, "raw_fork")
  /\ pc' = [pc EXCEPT ![t] = "ret"]
  /\ UNCHANGED <<ckptVars, holders, call, callsLeft, forkStatics, procVars,
                 childTable, now>>

\* fork() going on without waiting for the lock to be free
ForkAcquireNoWait(t) ==
  /\ Running /\ pc[t] = "f_lock"
  /\ AcquireExcl(t)
  /\ loc' = [loc EXCEPT ![t].lockAcquired = TRUE]
  /\ trace' = [trace EXCEPT ![t] = @ \o <<"lock", "ATFORK_PREPARE">>]
  /\ pc' = [pc EXCEPT ![t] = "f_time"]
  /\ UNCHANGED <<ckptVars, call, callsLeft, forkStatics, procVars, osVars>>

\* lines 146-147: WRAPPER_EXECUTION_GET_EXCL_LOCK() and
\* eventHook(DMTCP_EVENT_ATFORK_PREPARE)
ForkAcquire(t) ==
  /\ Running /\ pc[t] = "f_lock"
  /\ LockIsFree
  /\ AcquireExcl(t)
  /\ loc' = [loc EXCEPT ![t].lockAcquired = TRUE]
  /\ trace' = [trace EXCEPT ![t] = @ \o <<"lock", "ATFORK_PREPARE">>]
  /\ pc' = [pc EXCEPT ![t] = "f_time"]
  /\ UNCHANGED <<ckptVars, call, callsLeft, forkStatics, procVars, osVars>>

\* time(NULL): not smaller than the value it gave before
TimeNow == {tm \in now..(now + 1) : tm <= MaxTime}

\* lines 151-154: child_time = time(NULL); host = ThisProcess().hostid()
ForkTime(t) ==
  /\ Running /\ pc[t] = "f_time"
  /\ \E tm \in TimeNow :
       /\ now' = tm
       /\ child_time' = tm
       /\ loc' = [loc EXCEPT ![t].host = thisProcess.hostid,
                             ![t].savedTime = tm]
  /\ Step(t, "time")
  /\ pc' = [pc EXCEPT ![t] = "f_dup"]
  /\ UNCHANGED <<ckptVars, holders, call, callsLeft, childCoordinatorSocket,
                 pthread_atfork_enabled, procVars, childTable, children,
                 nextPid>>

\* the descriptor a new socket gets: the lowest one that is free
LowestFreeFd == CHOOSE n \in 3..(3 + Cardinality(openFds)) :
                  /\ n \notin openFds
                  /\ \A m \in 3..(n - 1) : m \in openFds

\* lines 156-160: createNewConnectionBeforeFork(), which may fail, and
\* pthread_atfork_enabled = true
ForkDup(t) ==
  /\ Running /\ pc[t] = "f_dup"
  /\ \E ok \in BOOLEAN :
       IF ok
       THEN /\ childCoordinatorSocket' = LowestFreeFd
            /\ openFds' = openFds \cup {LowestFreeFd}
       ELSE /\ childCoordinatorSocket' = BadFd
            /\ openFds' = openFds
  /\ pthread_atfork_enabled' = TRUE
  /\ Step(t, "createNewConnectionBeforeFork")
  /\ pc' = [pc EXCEPT ![t] = "f_fork"]
  /\ UNCHANGED <<ckptVars, holders, call, loc, callsLeft, child_time,
                 thisProcess, procEnv, patchedArgvLive, procStatus, osVars>>

\* line 161: _real_fork(); the child's side is ForkChildBranch
ForkReal(t) ==
  /\ Running /\ pc[t] = "f_fork"
  /\ \E ok \in BOOLEAN :
       IF ok
       THEN /\ children' = children \cup
                 {ForkChildBranch(Snapshot("fork", nextPid))}
            /\ nextPid' = nextPid + 1
            /\ loc' = [loc EXCEPT ![t].childPid = nextPid]
       ELSE /\ loc' = [loc EXCEPT ![t].childPid = -1, ![t].errno = "EAGAIN"]
            /\ UNCHANGED <<children, nextPid>>
  /\ Step(t, "real_fork")
  /\ pc' = [pc EXCEPT ![t] = "f_parent"]
  /\ UNCHANGED <<ckptVars, holders, call, callsLeft, forkStatics, procVars,
                 childTable, now>>

\* ProcessInfo::insertChild(pid, child)
insertChild(table, pid, child) ==
  {e \in table : e.pid # pid} \cup {[pid |-> pid, upid |-> child]}

\* the child recorded whenever this is not the child (childPid != 0)
ForkParentRecordsUnlessChild(t) ==
  /\ Running /\ pc[t] = "f_parent"
  /\ IF loc[t].childPid # 0
     THEN /\ childTable' = insertChild(childTable, loc[t].childPid,
                             UniquePid(loc[t].host, loc[t].childPid, child_time))
          /\ Step(t, "insertChild")
     ELSE UNCHANGED <<childTable, trace>>
  /\ pthread_atfork_enabled' = FALSE
  /\ pc' = [pc EXCEPT ![t] = "f_close"]
  /\ UNCHANGED <<ckptVars, holders, call, loc, callsLeft, child_time,
                 childCoordinatorSocket, procVars, children, nextPid, now>>

\* lines 163-192 in the parent: record the child, disable the handler
ForkParent(t) ==
  /\ Running /\ pc[t] = "f_parent"
  /\ IF loc[t].childPid > 0
     THEN /\ childTable' = insertChild(childTable, loc[t].childPid,
                             UniquePid(loc[t].host, loc[t].childPid, child_time))
          /\ Step(t, "insertChild")
     ELSE UNCHANGED <<childTable, trace>>
  /\ pthread_atfork_enabled' = FALSE
  /\ pc' = [pc EXCEPT ![t] = "f_close"]
  /\ UNCHANGED <<ckptVars, holders, call, loc, callsLeft, child_time,
                 childCoordinatorSocket, procVars, children, nextPid, now>>

\* ATFORK_PARENT fired before the connection is closed
ForkCloseAfterEvent(t) ==
  /\ Running /\ pc[t] = "f_close"
  /\ openFds' = openFds \ {childCoordinatorSocket}
  /\ loc' = IF childCoordinatorSocket \in openFds THEN loc
            ELSE [loc EXCEPT ![t].errno = "EBADF"]
  /\ trace' = [trace EXCEPT ![t] = @ \o <<"ATFORK_PARENT", "close">>]
  /\ pc' = [pc EXCEPT ![t] = "f_release"]
  /\ UNCHANGED <<ckptVars, holders, call, callsLeft, forkStatics,
                 thisProcess, procEnv, patchedArgvLive, procStatus, osVars>>

\* lines 195-196: _real_close(childCoordinatorSocket) and
\* eventHook(DMTCP_EVENT_ATFORK_PARENT)
ForkClose(t) ==
  /\ Running /\ pc[t] = "f_close"
  /\ openFds' = openFds \ {childCoordinatorSocket}
  /\ loc' = IF childCoordinatorSocket \in openFds THEN loc
            ELSE [loc EXCEPT ![t].errno = "EBADF"]
  /\ trace' = [trace EXCEPT ![t] = @ \o <<"close", "ATFORK_PARENT">>]
  /\ pc' = [pc EXCEPT ![t] = "f_release"]
  /\ UNCHANGED <<ckptVars, holders, call, callsLeft, forkStatics,
                 thisProcess, procEnv, patchedArgvLive, procStatus, osVars>>

\* lines 197-199: WRAPPER_EXECUTION_RELEASE_EXCL_LOCK(); return childPid
ForkRelease(t) ==
  /\ Running /\ pc[t] = "f_release"
  /\ ReleaseExcl(t, loc[t].lockAcquired)
  /\ loc' = [loc EXCEPT ![t].retVal = loc[t].childPid]
  /\ Step(t, "unlock")
  /\ pc' = [pc EXCEPT ![t] = "ret"]
  /\ UNCHANGED <<ckptVars, call, callsLeft, forkStatics, procVars, osVars>>

\* ------------------------------------------------------------------------
\* The argv/envp rewriter
\* ------------------------------------------------------------------------
\* copyEnv(): a NULL vector becomes the empty vector
copyEnv(v) == IF v.null THEN Env(<< >>) ELSE v

\* isImportantEnv() with a loop that stops one key short
isImportantEnvButLast(e) ==
  \E i \in 1..(Len(ourImportantEnvs) - 1) : e.key = ourImportantEnvs[i]

\* isImportantEnv(): the key is one of ourImportantEnvs
isImportantEnv(e) ==
  \E i \in 1..Len(ourImportantEnvs) : e.key = ourImportantEnvs[i]

\* patchUserEnv(), lines 490-506: the user's entries that are kept, and
\* the value of the last LD_PRELOAD entry
RECURSIVE UserEntries(_, _, _, _)
UserEntries(ents, i, result, userPreloadStr) ==
  IF i > Len(ents) THEN [result |-> result, userPreloadStr |-> userPreloadStr]
  ELSE IF isImportantEnv(ents[i])
       THEN UserEntries(ents, i + 1, result, userPreloadStr)
  ELSE IF ents[i].key = LD_PRELOAD
       THEN UserEntries(ents, i + 1, result, ents[i].val)
  ELSE UserEntries(ents, i + 1, Append(result, ents[i]), userPreloadStr)

\* patchUserEnv(), lines 511-522: our own variables, from getenv()
RECURSIVE OurEntries(_, _, _, _)
OurEntries(env, i, result, userPreloadStr) ==
  IF i > Len(ourImportantEnvs) THEN result
  ELSE LET e == ourImportantEnvs[i]
           v == env[e]
       IN  IF e = ENV_VAR_ORIG_LD_PRELOAD /\ userPreloadStr # << >>
           THEN OurEntries(env, i + 1,
                           Append(result, Entry(e, userPreloadStr)),
                           userPreloadStr)
           ELSE IF v.set
           THEN OurEntries(env, i + 1, Append(result, Entry(e, v.val)),
                           userPreloadStr)
           ELSE OurEntries(env, i + 1, result, userPreloadStr)

\* the plugin libraries found at their literal path, the 32-bit ELF files
ExistingLibs == { <<"libdmtcp.so">> }
Elf32Files == {F_hello32}

\* Util::getPath(BaseName(lib), is32bitElf)
getPath(lib, is32bitElf) ==
  (IF is32bitElf THEN <<"/", "install", "/", "lib32", "/">>
   ELSE <<"/", "install", "/", "lib", "/">>) \o BaseName(lib)

\* getUpdatedLdPreload(): the new LD_PRELOAD value and the process
\* environment after its setenv(ENV_VAR_ORIG_LD_PRELOAD, ...)
getUpdatedLdPreload(env, filename, currLdPreload) ==
  LET is32bitElf == filename \in Elf32Files
      preload == IF env[ENV_VAR_HIJACK_LIBS_M32].set /\ is32bitElf
                 THEN env[ENV_VAR_HIJACK_LIBS_M32].val
                 ELSE env[ENV_VAR_HIJACK_LIBS].val
      pluginLibraries ==
        [i \in 1..Len(preload) |->
           IF preload[i] \in ExistingLibs THEN preload[i]
           ELSE getPath(preload[i], is32bitElf)]
      preloadEnv == env[LD_PRELOAD]
  IN  IF currLdPreload # << >>
      THEN [newPreload |-> pluginLibraries \o currLdPreload,
            env |-> [env EXCEPT ![ENV_VAR_ORIG_LD_PRELOAD] = Val(currLdPreload)]]
      ELSE IF preloadEnv.set /\ preloadEnv.val # << >>
      THEN [newPreload |-> pluginLibraries \o preloadEnv.val,
            env |-> [env EXCEPT ![ENV_VAR_ORIG_LD_PRELOAD] = Val(preloadEnv.val)]]
      ELSE [newPreload |-> pluginLibraries, env |-> env]

\* patchUserEnv(): the patched vector and the process environment after it
patchUserEnv(env, ents, filename) ==
  LET user == UserEntries(ents, 1, << >>, << >>)
      ours == OurEntries(env, 1, user.result, user.userPreloadStr)
      upd  == getUpdatedLdPreload(env, filename, user.userPreloadStr)
  IN  [result |-> Append(ours, Entry(LD_PRELOAD, upd.newPreload)),
       env |-> upd.env]

\* restoreUserLDPRELOAD(): LD_PRELOAD becomes the saved user value
restoreUserLDPRELOAD(env) ==
  [env EXCEPT ![LD_PRELOAD] = env[ENV_VAR_ORIG_LD_PRELOAD]]

\* Util::patchArgvIfSetuid(): the setuid binary is run through a copy
patchArgvIfSetuid(path, argv) ==
  <<(<<"/", "tmp", "/", "setuid", "/">> \o BaseName(path))>> \o
  (IF argv = << >> THEN << >> ELSE Tail(argv))

VIRT_PTS_PREFIX_STR == <<"/dev/pts/v">>

\* SharedData::getRealPtyName()
getRealPtyName(virt) == <<"/dev/pts/">> \o Tail(virt)

\* dmtcpPrepareForExec(), lines 325-335: virtual pts names made real
RealPtsArgv(argv) ==
  [i \in 1..Len(argv) |->
     IF strStartsWith(argv[i], VIRT_PTS_PREFIX_STR)
     THEN getRealPtyName(argv[i]) ELSE argv[i]]

\* dmtcp_execvpe(), lines 749-750: exec'ed with no rewriting
IsBypassName(programName) ==
  \/ programName = <<"dmtcp_nocheckpoint">>
  \/ programName = <<"dmtcp_command">>
  \/ programName = <<"ssh">>
  \/ programName = <<"rsh">>

\* dmtcpPrepareForExec(): which of its branches the path takes
PrepareCase(path) ==
  IF strStartsWith(path, <<"/", "lib", "/", "lib">>) THEN "short_lived"
  ELSE IF strStartsWith(path, <<"/", "lib64", "/", "lib">>) THEN "short_lived"
  ELSE IF strEndsWith(path, <<"/", "utempter">>) THEN "utempter"
  ELSE IF isSetuid(path) THEN "setuid"
  ELSE "plain"

\* the special cases of dmtcpPrepareForExec() tested before the names
DispatchCasePrepareFirst(filename) ==
  IF PrepareCase(filename) \in {"short_lived", "utempter", "setuid"}
  THEN PrepareCase(filename)
  ELSE IF IsBypassName(BaseName(filename)) THEN "bypass"
  ELSE "plain"

\* dmtcp_execvpe(), lines 747-761, after PRE_EXEC
DispatchCase(filename) ==
  IF IsBypassName(BaseName(filename)) THEN "bypass"
  ELSE PrepareCase(filename)

\* ------------------------------------------------------------------------
\* dmtcp_execvpe()
\* ------------------------------------------------------------------------
Only(t, mine, others) == [u \in Threads |-> IF u = t THEN mine ELSE others]

\* Thread t ends the process image (exec, _exit, abort): every thread of
\* the process ends with it; what t did last stays visible.
ImageEnds(t, status, c, l, tr) ==
  /\ procStatus' = status
  /\ pc' = [u \in Threads |-> "gone"]
  /\ call' = Only(t, c, NoCall)
  /\ loc' = Only(t, l, NoLoc)
  /\ trace' = Only(t, tr, << >>)

\* Thread t goes on to position p
GoesOn(t, p, c, l, tr) ==
  /\ procStatus' = procStatus
  /\ pc' = [pc EXCEPT ![t] = p]
  /\ call' = [call EXCEPT ![t] = c]
  /\ loc' = [loc EXCEPT ![t] = l]
  /\ trace' = [trace EXCEPT ![t] = tr]

\* The caller's argv and envp are drawn where the wrapper first reads them.
WithArgs(c, a, e) == [c EXCEPT !.argv = a, !.envp = e]

\* lines 691-715: entry, the checkpoint-in-progress test, the self-tool
\* assertion and the dmtcp_command test
ExecEntry(t) ==
  /\ CanCall(t)
  /\ callsLeft' = callsLeft - 1
  /\ \E f \in Filenames :
       LET c == [NoCall EXCEPT !.op = "exec", !.filename = f]
           l == [NoLoc EXCEPT !.ckpt = isPerformingCkptRestart]
           programName == BaseName(f)
       IN  IF isPerformingCkptRestart
           THEN GoesOn(t, "x_bypass", c, l, << >>)
           ELSE IF IsSelfTool(programName)
           THEN ImageEnds(t, "aborted", c, l, <<"JASSERT">>)
           ELSE IF programName = <<"dmtcp_command">>
           THEN GoesOn(t, "x_relay", c, l, << >>)
           ELSE GoesOn(t, "x_lock", c, l, << >>)
  /\ UNCHANGED <<ckptVars, holders, forkStatics, thisProcess, procEnv,
                 openFds, patchedArgvLive, osVars>>

\* _real_execvpe(f, a, e): the image is replaced, or the call returns -1
RealExec(t, c, l, f, a, e, failPc) ==
  \E ok \in BOOLEAN :
    IF ok
    THEN ImageEnds(t, "execed", c, [l EXCEPT !.osExec = OsExec(f, a, e)],
                   trace[t] \o <<"real_execvpe">>)
    ELSE GoesOn(t, failPc, c,
                [l EXCEPT !.osExec = OsExec(f, a, e), !.retVal = -1,
                          !.errno = "ENOENT"],
                trace[t] \o <<"real_execvpe">>)

\* line 694: return _real_execvpe(filename, argv, envp)
ExecBypass(t) ==
  /\ Running /\ pc[t] = "x_bypass"
  /\ \E a \in ArgvInputs, e \in EnvInputs :
       RealExec(t, WithArgs(call[t], a, e), loc[t], call[t].filename, a, e,
                "ret")
  /\ UNCHANGED <<ckptVars, holders, callsLeft, forkStatics, thisProcess,
                 procEnv, openFds, patchedArgvLive, osVars>>

\* the relay path without the close of the coordinator connection
ExecRelayKeepsConnection(t) ==
  /\ Running /\ pc[t] = "x_relay"
  /\ openFds' = openFds
  /\ GoesOn(t, "x_relay_fork", call[t], loc[t], trace[t] \o <<"close_coord">>)
  /\ UNCHANGED <<ckptVars, holders, callsLeft, forkStatics, thisProcess,
                 procEnv, patchedArgvLive, osVars>>

\* line 707: _real_close(PROTECTED_COORD_FD)
ExecRelayClose(t) ==
  /\ Running /\ pc[t] = "x_relay"
  /\ openFds' = openFds \ {PROTECTED_COORD_FD}
  /\ GoesOn(t, "x_relay_fork", call[t], loc[t], trace[t] \o <<"close_coord">>)
  /\ UNCHANGED <<ckptVars, holders, callsLeft, forkStatics, thisProcess,
                 procEnv, patchedArgvLive, osVars>>

\* lines 709-714: _real_fork(); the parent exits, the child execs
ExecRelayFork(t) ==
  /\ Running /\ pc[t] = "x_relay_fork"
  /\ \E ok \in BOOLEAN, a \in ArgvInputs, e \in EnvInputs :
       IF ok
       THEN /\ children' = children \cup
                 {[RawForkChild(Snapshot("relay", nextPid), TRUE)
                     EXCEPT !.exec = OsExec(call[t].filename, a, e)]}
            /\ nextPid' = nextPid + 1
            /\ ImageEnds(t, "exited", WithArgs(call[t], a, e), loc[t],
                         trace[t] \o <<"real_fork", "real_exit">>)
       ELSE /\ UNCHANGED <<children, nextPid>>
            /\ ImageEnds(t, "aborted", WithArgs(call[t], a, e), loc[t],
                         trace[t] \o <<"real_fork", "JASSERT">>)
  /\ UNCHANGED <<ckptVars, holders, callsLeft, forkStatics, thisProcess,
                 procEnv, openFds, patchedArgvLive, childTable, now>>

\* dmtcp_execvpe() going on without waiting for the lock to be free
ExecAcquireNoWait(t) ==
  /\ Running /\ pc[t] = "x_lock"
  /\ AcquireExcl(t)
  /\ GoesOn(t, "x_copy", call[t], [loc[t] EXCEPT !.lockAcquired = TRUE],
            trace[t] \o <<"lock">>)
  /\ UNCHANGED <<ckptVars, callsLeft, forkStatics, thisProcess, procEnv,
                 openFds, patchedArgvLive, osVars>>

\* line 720: WRAPPER_EXECUTION_GET_EXCL_LOCK()
ExecAcquire(t) ==
  /\ Running /\ pc[t] = "x_lock"
  /\ LockIsFree
  /\ AcquireExcl(t)
  /\ GoesOn(t, "x_copy", call[t], [loc[t] EXCEPT !.lockAcquired = TRUE],
            trace[t] \o <<"lock">>)
  /\ UNCHANGED <<ckptVars, callsLeft, forkStatics, thisProcess, procEnv,
                 openFds, patchedArgvLive, osVars>>

\* PRE_EXEC fired ahead of the copies and of the lifeboat
ExecPreExecHookFirst(t) ==
  /\ Running /\ pc[t] = "x_copy"
  /\ \E a \in ArgvInputs, e \in EnvInputs,
        f \in {call[t].filename} \cup HookRewrites :
       GoesOn(t, "x_dispatch", WithArgs(call[t], a, e),
              [loc[t] EXCEPT !.filename = f, !.argv = a, !.envp = copyEnv(e)],
              trace[t] \o <<"PRE_EXEC", "copy", "getLifeboatFd", "serialize">>)
  /\ openFds' = openFds \cup {PROTECTED_LIFEBOAT_FD}
  /\ UNCHANGED <<ckptVars, holders, callsLeft, forkStatics, thisProcess,
                 procEnv, patchedArgvLive, osVars>>

\* lines 723-745: the copies, the lifeboat descriptor, the serialization
\* and eventHook(DMTCP_EVENT_PRE_EXEC, &data); a subscriber may write
\* another filename over data.preExec.filename
ExecPreExec(t) ==
  /\ Running /\ pc[t] = "x_copy"
  /\ \E a \in ArgvInputs, e \in EnvInputs,
        f \in {call[t].filename} \cup HookRewrites :
       GoesOn(t, "x_dispatch", WithArgs(call[t], a, e),
              [loc[t] EXCEPT !.filename = f, !.argv = a, !.envp = copyEnv(e)],
              trace[t] \o <<"copy", "getLifeboatFd", "serialize", "PRE_EXEC">>)
  /\ openFds' = openFds \cup {PROTECTED_LIFEBOAT_FD}
  /\ UNCHANGED <<ckptVars, holders, callsLeft, forkStatics, thisProcess,
                 procEnv, patchedArgvLive, osVars>>

\* lines 747-766: the bypass names, dmtcpPrepareForExec(), patchUserEnv()
ExecDispatch(t) ==
  /\ Running /\ pc[t] = "x_dispatch"
  /\ LET path == loc[t].filename
         case == DispatchCase(path)
         patched == patchUserEnv(procEnv, loc[t].envp.ents, path)
         newArgv == IF case = "setuid"
                    THEN patchArgvIfSetuid(path, loc[t].argv)
                    ELSE loc[t].argv
         newFilename == IF case = "setuid" THEN newArgv[1] ELSE path
     IN  CASE case = "bypass" ->
                /\ GoesOn(t, "x_transparent", call[t], loc[t], trace[t])
                /\ UNCHANGED <<procEnv, patchedArgvLive>>
           [] case = "short_lived" ->
                /\ GoesOn(t, "x_short", call[t], loc[t], trace[t])
                /\ UNCHANGED <<procEnv, patchedArgvLive>>
           [] case = "utempter" ->
                /\ GoesOn(t, "x_short", call[t],
                          [loc[t] EXCEPT !.argv = RealPtsArgv(loc[t].argv)],
                          trace[t])
                /\ UNCHANGED <<procEnv, patchedArgvLive>>
           [] OTHER ->
                /\ GoesOn(t, "x_exec", call[t],
                          [loc[t] EXCEPT
                             !.newArgv = newArgv,
                             !.newFilename = newFilename,
                             !.newEnv = Env(patched.result),
                             !.envAtPatch = procEnv],
                          trace[t] \o
                            (IF case = "setuid" THEN <<"patchArgvIfSetuid">>
                             ELSE << >>) \o <<"patchUserEnv">>)
                /\ patchedArgvLive' = (patchedArgvLive \/ case = "setuid")
                /\ procEnv' = patched.env
  /\ UNCHANGED <<ckptVars, holders, callsLeft, forkStatics, thisProcess,
                 openFds, osVars>>

\* lines 751-753: return _real_execvpe(data.preExec.filename, ...)
ExecTransparent(t) ==
  /\ Running /\ pc[t] = "x_transparent"
  /\ RealExec(t, call[t], loc[t], loc[t].filename, loc[t].argv, loc[t].envp,
              "ret")
  /\ UNCHANGED <<ckptVars, holders, callsLeft, forkStatics, thisProcess,
                 procEnv, openFds, patchedArgvLive, osVars>>

\* execShortLivedProcessAndExit(), lines 260-278: the subprocess runs.
\* _real_popen() may return NULL; fread() is then given a null stream,
\* which ends the process in a fault.
ExecShortRun(t) ==
  /\ Running /\ pc[t] = "x_short"
  /\ procEnv' = [procEnv EXCEPT ![LD_PRELOAD] = Unset]
  /\ \E ok \in BOOLEAN :
       IF ok
       THEN GoesOn(t, "x_short_release", call[t], loc[t],
                   trace[t] \o <<"unsetenv", "popen", "fread", "pclose">>)
       ELSE ImageEnds(t, "faulted", call[t], loc[t],
                      trace[t] \o <<"unsetenv", "popen", "fread">>)
  /\ UNCHANGED <<ckptVars, holders, callsLeft, forkStatics, thisProcess,
                 openFds, patchedArgvLive, osVars>>

\* execShortLivedProcessAndExit(), lines 281-282: the lock is released
ExecShortRelease(t) ==
  /\ Running /\ pc[t] = "x_short_release"
  /\ ReleaseExcl(t, TRUE)
  /\ GoesOn(t, "x_short_exit", call[t], loc[t], trace[t] \o <<"unlock">>)
  /\ UNCHANGED <<ckptVars, callsLeft, forkStatics, thisProcess, procEnv,
                 openFds, patchedArgvLive, osVars>>

\* execShortLivedProcessAndExit(), lines 286-290: printf and _exit(0)
ExecShortExit(t) ==
  /\ Running /\ pc[t] = "x_short_exit"
  /\ ImageEnds(t, "exited", call[t], loc[t], trace[t] \o <<"printf", "_exit">>)
  /\ UNCHANGED <<ckptVars, holders, callsLeft, forkStatics, thisProcess,
                 procEnv, openFds, patchedArgvLive, osVars>>

\* lines 768-770: _real_execvpe(newFilename, newArgv, newEnv)
ExecReal(t) ==
  /\ Running /\ pc[t] = "x_exec"
  /\ RealExec(t, call[t], loc[t], loc[t].newFilename, loc[t].newArgv,
              loc[t].newEnv, "x_failed")
  /\ UNCHANGED <<ckptVars, holders, callsLeft, forkStatics, thisProcess,
                 procEnv, openFds, patchedArgvLive, osVars>>

\* the values errno may have after freePatchedArgv/restoreUserLDPRELOAD
ErrnoAfterCleanup(e) == {e, "EINVAL"}

\* errno left as the clean-up calls set it
ErrnoNotRestored(saved_errno, clobbered) == clobbered

\* dmtcpProcessFailedExec(), lines 373 and 382: errno = saved_errno
RestoredErrno(saved_errno, clobbered) == saved_errno

\* line 772: dmtcpProcessFailedExec(data.preExec.filename, newArgv); the
\* JASSERT on _real_close(PROTECTED_LIFEBOAT_FD) ends the process
dmtcpProcessFailedExec(t) ==
  /\ Running /\ pc[t] = "x_failed"
  /\ LET saved_errno == loc[t].errno
         path == loc[t].filename
         tr == trace[t] \o (IF isSetuid(path) THEN <<"freePatchedArgv">>
                            ELSE << >>)
                        \o <<"restoreUserLDPRELOAD", "close_lifeboat">>
     IN  \E clobbered \in ErrnoAfterCleanup(saved_errno) :
           IF PROTECTED_LIFEBOAT_FD \in openFds
           THEN GoesOn(t, "x_release", call[t],
                       [loc[t] EXCEPT
                          !.errno = RestoredErrno(saved_errno, clobbered)],
                       tr)
           ELSE ImageEnds(t, "aborted", call[t], loc[t], tr \o <<"JASSERT">>)
  /\ patchedArgvLive' = IF isSetuid(loc[t].filename) THEN FALSE
                        ELSE patchedArgvLive
  /\ procEnv' = restoreUserLDPRELOAD(procEnv)
  /\ openFds' = openFds \ {PROTECTED_LIFEBOAT_FD}
  /\ UNCHANGED <<ckptVars, holders, callsLeft, forkStatics, thisProcess,
                 osVars>>

\* lines 774-776: WRAPPER_EXECUTION_RELEASE_EXCL_LOCK(); return retVal
ExecRelease(t) ==
  /\ Running /\ pc[t] = "x_release"
  /\ ReleaseExcl(t, loc[t].lockAcquired)
  /\ GoesOn(t, "ret", call[t], loc[t], trace[t] \o <<"unlock">>)
  /\ UNCHANGED <<ckptVars, callsLeft, forkStatics, thisProcess, procEnv,
                 openFds, patchedArgvLive, osVars>>

Exec(t) ==
  \/ ExecEntry(t)
  \/ ExecBypass(t)
  \/ ExecRelayClose(t)
  \/ ExecRelayFork(t)
  \/ ExecAcquire(t)
  \/ ExecPreExec(t)
  \/ ExecDispatch(t)
  \/ ExecTransparent(t)
  \/ ExecShortRun(t)
  \/ ExecShortRelease(t)
  \/ ExecShortExit(t)
  \/ ExecReal(t)
  \/ dmtcpProcessFailedExec(t)
  \/ ExecRelease(t)

Fork(t) ==
  \/ ForkEntry(t)
  \/ ForkBypass(t)
  \/ ForkAcquire(t)
  \/ ForkTime(t)
  \/ ForkDup(t)
  \/ ForkReal(t)
  \/ ForkParent(t)
  \/ ForkClose(t)
  \/ ForkRelease(t)

Next ==
  \/ WorkerInitialized
  \/ CkptBegin
  \/ CkptEnd
  \/ \E t \in Threads : Fork(t)
  \/ \E t \in Threads : Exec(t)
  \/ \E t \in Threads : Return(t)

Spec == Init /\ [][Next]_vars

\* a step of thread t inside a wrapper it has entered, its return included
WrapperStep(t) == pc[t] # "idle" /\ (Fork(t) \/ Exec(t) \/ Return(t))

\* Fair scheduling: a thread inside fork() or dmtcp_execvpe() that can go
\* on does go on (the OS calls it makes return or end the image), and a
\* checkpoint that has begun comes to its end.  Nothing makes the
\* application call a wrapper or the coordinator ask for a checkpoint.
FairSpec ==
  /\ Spec
  /\ \A t \in Threads : WF_vars(WrapperStep(t))
  /\ WF_vars(CkptEnd)

\* ------------------------------------------------------------------------
\* The environment patcher on its own: one exec, from the copies of lines
\* 726-733 to the patched vector of lines 763-766, over every envp of up
\* to MaxEnvLen entries and every process environment of EnvProcEnvs.
\* ------------------------------------------------------------------------
MAX_EXTRA_ARGS == 32
MAX_EXTRA_ENV  == 32

\* stringVectorToPointerArray(s, len): the JASSERT, the slots 0..size-1
\* and the NULL written at slot s.size() of an array of len slots
stringVectorToPointerArray(s, len) ==
  [asserted |-> len >= Len(s), elems |-> s, nullAt |-> Len(s), len |-> len]

NoArray == [asserted |-> TRUE, elems |-> << >>, nullAt |-> 0, len |-> 0]

EnvEntries ==
  { Entry(LD_PRELOAD, << <<"u.so">> >>),
    Entry(LD_PRELOAD, << >>),
    Entry(ENV_VAR_ORIG_LD_PRELOAD, << <<"x.so">> >>),
    Entry(ENV_VAR_HIJACK_LIBS, << <<"x.so">> >>),
    Entry("HOME", << <<"/home">> >>) }

EnvVectors ==
  {NullEnv} \cup
  {Env(es) : es \in UNION {[1..n -> EnvEntries] : n \in 0..MaxEnvLen}}

EnvFilenames == {F_ls, F_hello32}

\* the process environments: the injection list is always set
EnvProcEnvs ==
  { [k \in EnvKeys |->
       CASE k = ENV_VAR_HIJACK_LIBS ->
              Val(<< <<"libdmtcp.so">>, <<"/", "old", "/", "plug.so">> >>)
         [] k = ENV_VAR_HIJACK_LIBS_M32 -> m32
         [] k = ENV_VAR_ORIG_LD_PRELOAD -> orig
         [] OTHER -> pre] :
    m32 \in {Unset, Val(<< <<"lib32.so">> >>)},
    orig \in {Unset, Val(<< <<"p.so">> >>), Val(<< <<"q.so">> >>)},
    pre \in {Unset, Val(<< <<"p.so">> >>)} }

\* the locals of the exec that is followed
EnvLoc ==
  [envp |-> NullEnv, maxArgs |-> 0, maxEnv |-> 0, argvArr |-> NoArray,
   envpArr |-> NoArray, added |-> 0, envAtPatch |-> [k \in EnvKeys |-> Unset],
   newEnv |-> NullEnv, newEnvArr |-> NoArray]

EnvInit ==
  /\ workerState = "RUNNING"
  /\ holders = {"t1"}
  /\ pc = Only("t1", "e_copy", "idle")
  /\ \E f \in EnvFilenames, a \in ArgvInputs, e \in EnvVectors :
       call = Only("t1", [op |-> "exec", filename |-> f, argv |-> a,
                          envp |-> e], NoCall)
  /\ loc = Only("t1", EnvLoc, NoLoc)
  /\ trace = [t \in Threads |-> << >>]
  /\ callsLeft = 0
  /\ child_time = 0
  /\ childCoordinatorSocket = BadFd
  /\ pthread_atfork_enabled = FALSE
  /\ thisProcess = UniquePid("host0", 1, 0)
  /\ procEnv \in EnvProcEnvs
  /\ openFds = {PROTECTED_COORD_FD}
  /\ patchedArgvLive = FALSE
  /\ childTable = {}
  /\ children = {}
  /\ nextPid = 2
  /\ now = 1
  /\ procStatus = "running"

envOthers == <<workerState, holders, callsLeft, forkStatics, thisProcess,
               openFds, patchedArgvLive, osVars>>

\* lines 726-733: the copies of argv and envp and their capacities
EnvCopy(t) ==
  /\ procStatus = "running" /\ pc[t] = "e_copy"
  /\ LET argvCopy == call[t].argv
         envpCopy == copyEnv(call[t].envp)
         maxArgs == Len(argvCopy) + MAX_EXTRA_ARGS
         maxEnv == Len(envpCopy.ents) + MAX_EXTRA_ENV
     IN  loc' = [loc EXCEPT ![t] =
                   [@ EXCEPT
                      !.envp = envpCopy,
                      !.maxArgs = maxArgs,
                      !.maxEnv = maxEnv,
                      !.argvArr = stringVectorToPointerArray(argvCopy, maxArgs),
                      !.envpArr = stringVectorToPointerArray(envpCopy.ents,
                                                             maxEnv)]]
  /\ pc' = [pc EXCEPT ![t] = "e_hook"]
  /\ UNCHANGED <<envOthers, call, trace, procEnv, procStatus>>

\* the numbers of entries a PRE_EXEC subscriber adds to data.preExec.envp:
\* it is told maxEnv and keeps the NULL inside the array
HookAdds == {0, MAX_EXTRA_ENV - 4, MAX_EXTRA_ENV - 1}

RECURSIVE HookEntries(_)
HookEntries(k) ==
  IF k = 0 THEN << >>
  ELSE Append(HookEntries(k - 1), Entry("PLUGIN_VAR", << <<"v">> >>))

\* line 745: eventHook(DMTCP_EVENT_PRE_EXEC, &data)
EnvHook(t) ==
  /\ procStatus = "running" /\ pc[t] = "e_hook"
  /\ \E k \in HookAdds :
       /\ Len(loc[t].envp.ents) + k + 1 <= loc[t].maxEnv
       /\ loc' = [loc EXCEPT ![t] =
                    [@ EXCEPT !.envp = Env(loc[t].envp.ents \o HookEntries(k)),
                              !.added = k]]
  /\ pc' = [pc EXCEPT ![t] = "e_patch"]
  /\ UNCHANGED <<envOthers, call, trace, procEnv, procStatus>>

\* what a write past the end of the array may do
OverflowOutcomes == {"running", "faulted"}

\* lines 763-766: patchUserEnv() and stringVectorToPointerArray() of its
\* result with the capacity maxEnv
EnvPatch(t) ==
  /\ procStatus = "running" /\ pc[t] = "e_patch"
  /\ LET patched == patchUserEnv(procEnv, loc[t].envp.ents, call[t].filename)
         newEnv == stringVectorToPointerArray(patched.result, loc[t].maxEnv)
     IN  /\ loc' = [loc EXCEPT ![t] =
                      [@ EXCEPT !.envAtPatch = procEnv,
                                !.newEnv = Env(patched.result),
                                !.newEnvArr = newEnv]]
         /\ procEnv' = patched.env
         /\ procStatus' \in
              IF ~newEnv.asserted THEN {"aborted"}
              ELSE IF newEnv.nullAt >= newEnv.len THEN OverflowOutcomes
              ELSE {"running"}
  /\ pc' = [pc EXCEPT ![t] = "e_patched"]
  /\ UNCHANGED <<envOthers, call, trace>>

NextEnv == \E t \in Threads : EnvCopy(t) \/ EnvHook(t) \/ EnvPatch(t)

SpecEnv == EnvInit /\ [][NextEnv]_vars

\* ------------------------------------------------------------------------
\* Properties
\* ------------------------------------------------------------------------
\* the positions of fork() after line 146 and up to line 197, and of
\* dmtcp_execvpe() after line 720 and up to its release of the lock
ForkGuardedPcs == {"f_time", "f_dup", "f_fork", "f_parent", "f_close",
                   "f_release"}
ExecGuardedPcs == {"x_copy", "x_dispatch", "x_transparent", "x_short",
                   "x_short_release", "x_exec", "x_failed", "x_release"}
InGuard(t) == pc[t] \in ForkGuardedPcs \cup ExecGuardedPcs

C2_ReleasedOnReturn ==
  /\ \A t \in Threads :
       pc[t] = "ret" /\ loc[t].lockAcquired => t \notin holders
  /\ \A c \in children : c.kind = "fork" => c.holders = {}

\* a fork and a fully intercepted exec that failed have returned
C2_Witness ==
  \E t \in Threads :
    /\ pc[t] = "ret" /\ loc[t].lockAcquired /\ t \notin holders
    /\ call[t].op = "exec"
    /\ \E c \in children : c.kind = "fork"

\* C3: checkpoint-in-progress bypass.  A call of fork() or dmtcp_execvpe()
\* made while the worker state is neither UNKNOWN nor RUNNING takes the
\* bypass, and the bypass is one call of the raw OS primitive with the
\* caller's own arguments whose result is returned: the lock, the
\* statics of fork, the descriptors, the environment and the child table
\* are left alone, and no event is fired.
C3_CkptBypass ==
  [][\A t \in Threads :
       /\ (pc[t] = "idle" /\ pc'[t] \notin {"idle", "gone"}
            /\ workerState \notin {"UNKNOWN", "RUNNING"})
          => pc'[t] \in {"f_bypass", "x_bypass"}
       /\ (pc[t] \in {"f_bypass", "x_bypass"} /\ pc'[t] # pc[t]
            /\ call'[t].op # "none")
          => /\ UNCHANGED <<holders, forkStatics, openFds, procEnv,
                            childTable, patchedArgvLive>>
             /\ ~loc'[t].lockAcquired
             /\ trace'[t] = IF pc[t] = "f_bypass" THEN <<"raw_fork">>
                            ELSE <<"real_execvpe">>
             /\ pc[t] = "f_bypass" =>
                  /\ pc'[t] = "ret"
                  /\ \/ loc'[t].retVal = -1 /\ children' = children
                     \/ /\ loc'[t].retVal = nextPid
                        /\ \E c \in children' \ children :
                             c.pid = nextPid /\ c.kind = "bypass"
             /\ pc[t] = "x_bypass" =>
                  /\ loc'[t].osExec =
                       OsExec(call'[t].filename, call'[t].argv, call'[t].envp)
                  /\ call'[t].filename = call[t].filename
                  /\ \/ pc'[t] = "ret" /\ loc'[t].retVal = -1
                     \/ pc'[t] = "gone" /\ procStatus' = "execed"
     ]_vars

\* a bypassing fork has returned the pid of its child
C3_Witness ==
  \E t \in Threads :
    /\ pc[t] = "ret" /\ loc[t].ckpt /\ call[t].op = "fork"
    /\ loc[t].retVal > 0 /\ workerState = "CHECKPOINTING"

\* the value of the last LD_PRELOAD entry among the first n entries of a
\* vector, << >> if there is none
RECURSIVE LastPreloadOf(_, _)
LastPreloadOf(ents, n) ==
  IF n = 0 THEN << >>
  ELSE IF ents[n].key = LD_PRELOAD THEN ents[n].val
  ELSE LastPreloadOf(ents, n - 1)

\* the user's preload value before a patch: the one of the vector given to
\* exec, else the one of the process, else the one the process has saved
UserPreloadValue(envp, env) ==
  LET u == LastPreloadOf(envp.ents, Len(envp.ents))
  IN  IF u # << >> THEN Val(u)
      ELSE IF env[LD_PRELOAD].set /\ env[LD_PRELOAD].val # << >>
      THEN env[LD_PRELOAD]
      ELSE env[ENV_VAR_ORIG_LD_PRELOAD]

\* the call of t went through dmtcpPrepareForExec() and patchUserEnv()
Intercepted(t) == call[t].op = "exec" /\ loc[t].newFilename # << >>

DispatchFollows(t, bypassNames) ==
  /\ (pc[t] = "idle" /\ call'[t].op = "exec") =>
       LET programName == BaseName(call'[t].filename)
       IN  IF workerState \notin {"UNKNOWN", "RUNNING"}
           THEN pc'[t] = "x_bypass"
           ELSE IF programName \in {<<"dmtcp_coordinator">>, <<"dmtcp_launch">>,
                                    <<"dmtcp_restart">>, <<"mtcp_restart">>}
           THEN procStatus' = "aborted"
           ELSE IF programName = <<"dmtcp_command">>
           THEN pc'[t] = "x_relay"
           ELSE pc'[t] = "x_lock"
  /\ (pc[t] = "x_dispatch" /\ pc'[t] \notin {"x_dispatch", "gone"}) =>
       LET f == loc[t].filename
       IN  IF BaseName(f) \in bypassNames
           THEN pc'[t] = "x_transparent" /\ loc'[t] = loc[t]
           ELSE IF \/ strStartsWith(f, <<"/", "lib", "/", "lib">>)
                   \/ strStartsWith(f, <<"/", "lib64", "/", "lib">>)
           THEN pc'[t] = "x_short" /\ loc'[t] = loc[t]
           ELSE IF strEndsWith(f, <<"/", "utempter">>)
           THEN pc'[t] = "x_short" /\ loc'[t].argv = RealPtsArgv(loc[t].argv)
           ELSE IF isSetuid(f)
           THEN /\ pc'[t] = "x_exec" /\ patchedArgvLive'
                /\ loc'[t].newFilename # f
           ELSE /\ pc'[t] = "x_exec" /\ patchedArgvLive' = patchedArgvLive
                /\ loc'[t].newFilename = f /\ loc'[t].newArgv = loc[t].argv

\* C5 as stated: dispatcher priority with the transparent-bypass names
\* dmtcp_nocheckpoint, ssh and rsh.
C5_AsStated ==
  [][\A t \in Threads :
       DispatchFollows(t, {<<"dmtcp_nocheckpoint">>, <<"ssh">>, <<"rsh">>})]_vars

\* C5, amended: dispatcher priority.  The path of every exec is decided
\* by these tests in this order, the first that matches winning:
\* checkpoint in progress, self-tool, dmtcp_command (relay), the
\* transparent-bypass names dmtcp_nocheckpoint, dmtcp_command, ssh and
\* rsh, the library paths /lib/lib and /lib64/lib, the utempter helper,
\* setuid, and otherwise full interception.
C5_DispatcherPriority ==
  [][\A t \in Threads :
       DispatchFollows(t, {<<"dmtcp_nocheckpoint">>, <<"dmtcp_command">>,
                           <<"ssh">>, <<"rsh">>})]_vars

\* /lib/lib/ssh went the transparent way and the OS refused it
C5_Witness ==
  \E t \in Threads :
    /\ pc[t] = "ret" /\ call[t].filename = F_libssh
    /\ loc[t].filename = F_libssh /\ loc[t].osExec.called

\* the call of t is an exec of one of the self-tools
ExecOfSelfTool(t) ==
  /\ call[t].op = "exec"
  /\ BaseName(call[t].filename) \in
       {<<"dmtcp_coordinator">>, <<"dmtcp_launch">>, <<"dmtcp_restart">>,
        <<"mtcp_restart">>}

\* C6 as stated: an exec of a self-tool never reaches the OS exec
\* primitive and never returns: it always ends in the usage assertion.
C6_AsStated ==
  \A t \in Threads :
    ExecOfSelfTool(t) =>
      /\ ~loc[t].osExec.called
      /\ pc[t] # "ret"
      /\ procStatus \in {"running", "aborted"}

\* C6, amended: self-tool rejection.  An exec of dmtcp_coordinator,
\* dmtcp_launch, dmtcp_restart or mtcp_restart made while no checkpoint or
\* restart is in progress ends the process in the usage assertion, before
\* argv and envp are read, and the OS exec primitive is not called.
C6_SelfToolRejected ==
  \A t \in Threads :
    ExecOfSelfTool(t) /\ ~loc[t].ckpt =>
      /\ procStatus = "aborted"
      /\ trace[t] = <<"JASSERT">>
      /\ ~loc[t].osExec.called
      /\ call[t].argv = << >> /\ call[t].envp = NullEnv

\* the exec of /bin/dmtcp_restart has ended in the assertion
C6_Witness ==
  \E t \in Threads :
    /\ ExecOfSelfTool(t) /\ ~loc[t].ckpt
    /\ procStatus = "aborted" /\ workerState = "RUNNING"

\* the call of t is a fork() that did not take the bypass
InterceptedFork(t) == call[t].op = "fork" /\ ~loc[t].ckpt

ForkSteps(forked) ==
  <<"lock", "ATFORK_PREPARE", "time", "createNewConnectionBeforeFork",
    "real_fork">> \o
  (IF forked THEN <<"insertChild">> ELSE << >>) \o
  <<"close", "ATFORK_PARENT", "unlock">>

IsPrefix(a, b) == Len(a) <= Len(b) /\ SubSeq(b, 1, Len(a)) = a

C9_ForkFailure ==
  [][\A t \in Threads :
       /\ (pc[t] = "f_fork" /\ pc'[t] = "f_parent" /\ loc'[t].childPid = -1)
          => children' = children /\ nextPid' = nextPid
       /\ (pc[t] = "f_parent" /\ pc'[t] = "f_close" /\ loc[t].childPid = -1)
          => childTable' = childTable /\ children' = children
       /\ (pc[t] = "f_release" /\ pc'[t] = "ret" /\ loc[t].childPid = -1)
          => /\ loc'[t].retVal = -1
             /\ t \notin holders'
             /\ childTable' = childTable /\ children' = children
     ]_vars

\* a fork() whose OS fork failed has returned
C9_Witness ==
  \E t \in Threads :
    /\ InterceptedFork(t) /\ pc[t] = "ret" /\ loc[t].retVal = -1
    /\ t \notin holders

\* C10: connection duplication failure aborts fork.  When
\* createNewConnectionBeforeFork() fails, fork() does not call the OS fork
\* and returns an error; no child of an intercepted fork has an invalid
\* control connection.
C10_DupFailureAbortsFork ==
  /\ \A t \in Threads :
       (InterceptedFork(t) /\ pc[t] \in {"f_parent", "f_close", "f_release",
                                         "ret"}
        /\ childCoordinatorSocket = BadFd) =>
         /\ loc[t].childPid = 0
         /\ pc[t] = "ret" => loc[t].retVal = -1
  /\ \A c \in children : c.kind = "fork" => c.coordSock \in c.fds

\* the duplication failed and fork() returned the pid of a child
C10_Witness ==
  \E t \in Threads :
    /\ InterceptedFork(t) /\ pc[t] = "ret" /\ loc[t].retVal > 0
    /\ childCoordinatorSocket = BadFd
    /\ \E c \in children : c.pid = loc[t].retVal /\ c.coordSock = BadFd

\* the steps of an exec that goes the short-lived way, in their order
ShortLivedSteps ==
  <<"lock", "copy", "getLifeboatFd", "serialize", "PRE_EXEC",
    "unsetenv", "popen", "fread", "pclose", "unlock", "printf", "_exit">>

\* the call of t has reached dmtcpPrepareForExec() with a path that
\* starts with /lib/lib or /lib64/lib or ends with /utempter
ShortLivedTarget(t) ==
  /\ call[t].op = "exec"
  /\ pc[t] \notin {"idle", "x_bypass", "x_relay", "x_relay_fork", "x_lock",
                   "x_copy", "x_dispatch", "x_transparent"}
  /\ "PRE_EXEC" \in {trace[t][i] : i \in 1..Len(trace[t])}
  /\ ~IsBypassName(BaseName(loc[t].filename))
  /\ \/ strStartsWith(loc[t].filename, <<"/", "lib", "/", "lib">>)
     \/ strStartsWith(loc[t].filename, <<"/", "lib64", "/", "lib">>)
     \/ strEndsWith(loc[t].filename, <<"/", "utempter">>)

\* C11: short-lived capture never returns.  An exec that reaches
\* dmtcpPrepareForExec() with such a target runs it as a subprocess under
\* the lock, releases the lock after the subprocess has finished, prints
\* the output and ends the process with _exit: the call never returns,
\* and when this call ends the process it has done all of these steps.
C11_ShortLivedNeverReturns ==
  \A t \in Threads :
    ShortLivedTarget(t) =>
      /\ pc[t] # "ret"
      /\ IsPrefix(trace[t], ShortLivedSteps)
      /\ (t \in holders) = (Len(trace[t]) < 10)
      /\ procStatus # "running" =>
           procStatus = "exited" /\ trace[t] = ShortLivedSteps

\* the exec of /lib/libc.so has printed the output and ended the process
C11_Witness ==
  \E t \in Threads :
    /\ ShortLivedTarget(t) /\ call[t].filename = F_libc
    /\ procStatus = "exited" /\ trace[t] = ShortLivedSteps

\* ------------------------------------------------------------------------
\* Claims about the patched environment (under SpecEnv)
\* ------------------------------------------------------------------------
\* the values of the entries of a vector that carry the key k
ValuesOf(ents, k) == [i \in {j \in 1..Len(ents) : ents[j].key = k} |-> ents[i].val]

CountOf(ents, k) == Cardinality(DOMAIN ValuesOf(ents, k))

\* the thread of SpecEnv has run patchUserEnv()
Patched(t) == pc[t] = "e_patched"

\* the user's preload value v of the claim, and where it came from
PreloadOfEnvp(t) == LastPreloadOf(loc[t].envp.ents, Len(loc[t].envp.ents))

PreloadOfProcess(t) ==
  IF loc[t].envAtPatch[LD_PRELOAD].set THEN loc[t].envAtPatch[LD_PRELOAD].val
  ELSE << >>

UserPreloadOf(t) ==
  IF PreloadOfEnvp(t) # << >> THEN PreloadOfEnvp(t) ELSE PreloadOfProcess(t)

\* the configured injection libraries of the exec, each by the path it is
\* found at
InjectionLibs(t) ==
  LET m32 == call[t].filename \in Elf32Files
      cfg == IF m32 /\ loc[t].envAtPatch[ENV_VAR_HIJACK_LIBS_M32].set
             THEN loc[t].envAtPatch[ENV_VAR_HIJACK_LIBS_M32].val
             ELSE loc[t].envAtPatch[ENV_VAR_HIJACK_LIBS].val
  IN  [i \in 1..Len(cfg) |->
         IF cfg[i] \in ExistingLibs THEN cfg[i] ELSE getPath(cfg[i], m32)]

\* C12 (preload composition): when the user's preload value v (the
\* LD_PRELOAD entry of the given envp, else the process's LD_PRELOAD) is not
\* empty, the patched environment has exactly one LD_PRELOAD entry, the
\* injection libraries in order followed by v, and it has the reserved
\* original-preload key with the value v.
C12_PreloadComposition ==
  \A t \in Threads :
    Patched(t) /\ UserPreloadOf(t) # << >> =>
      LET ents == loc[t].newEnv.ents
      IN  /\ CountOf(ents, LD_PRELOAD) = 1
          /\ \A i \in DOMAIN ValuesOf(ents, LD_PRELOAD) :
               ents[i].val = InjectionLibs(t) \o UserPreloadOf(t)
          /\ CountOf(ents, ENV_VAR_ORIG_LD_PRELOAD) >= 1
          /\ \A i \in DOMAIN ValuesOf(ents, ENV_VAR_ORIG_LD_PRELOAD) :
               ents[i].val = UserPreloadOf(t)

\* an exec whose envp has no LD_PRELOAD, in a process whose LD_PRELOAD is
\* p.so and whose saved original preload is q.so, has been patched
C12_Witness ==
  \E t \in Threads :
    /\ Patched(t) /\ PreloadOfEnvp(t) = << >>
    /\ PreloadOfProcess(t) = << <<"p.so">> >>
    /\ loc[t].envAtPatch[ENV_VAR_ORIG_LD_PRELOAD] = Val(<< <<"q.so">> >>)
    /\ CountOf(loc[t].newEnv.ents, LD_PRELOAD) = 1

\* the keys of ourImportantEnvs
ReservedKeys == {ourImportantEnvs[i] : i \in 1..Len(ourImportantEnvs)}

\* C13 (reserved keys unique): in the output of patchUserEnv every reserved
\* key appears at most once, and every entry with a reserved key carries
\* the process's own value of that key (for the original-preload key: the
\* user's LD_PRELOAD value when the envp gave one), so that no reserved
\* entry of the input survives.
C13_ReservedKeysUnique ==
  \A t \in Threads :
    Patched(t) =>
      LET ents == loc[t].newEnv.ents
          own == loc[t].envAtPatch
      IN  \A k \in ReservedKeys :
            /\ CountOf(ents, k) <= 1
            /\ \A i \in DOMAIN ValuesOf(ents, k) :
                 IF k = ENV_VAR_ORIG_LD_PRELOAD /\ PreloadOfEnvp(t) # << >>
                 THEN ents[i].val = PreloadOfEnvp(t)
                 ELSE own[k].set /\ ents[i].val = own[k].val

\* an envp that repeats a reserved key and LD_PRELOAD has been patched, and
\* the output carries that reserved key once
C13_Witness ==
  \E t \in Threads :
    /\ Patched(t)
    /\ CountOf(call[t].envp.ents, ENV_VAR_ORIG_LD_PRELOAD) >= 2
    /\ CountOf(call[t].envp.ents, LD_PRELOAD) >= 1
    /\ CountOf(loc[t].newEnv.ents, ENV_VAR_ORIG_LD_PRELOAD) = 1

\* the entries of a vector without those that carry a reserved key
StripReserved(ents) ==
  LET Keep(e) == e.key \notin ReservedKeys IN SelectSeq(ents, Keep)

\* the entries of a vector with the key k, in order
EntriesOf(ents, k) ==
  LET Has(e) == e.key = k IN SelectSeq(ents, Has)

\* the output of a second patchUserEnv(), in the same process, of the
\* first output stripped of its reserved keys
PatchedAgain(t) ==
  patchUserEnv(procEnv, StripReserved(loc[t].newEnv.ents),
               call[t].filename).result

\* C14 (idempotence): patching an environment, stripping the reserved keys
\* from the result and patching again gives the same LD_PRELOAD value and
\* the same reserved-key values as patching once.
C14_Idempotence ==
  \A t \in Threads :
    Patched(t) =>
      \A k \in ReservedKeys \cup {LD_PRELOAD} :
        EntriesOf(PatchedAgain(t), k) = EntriesOf(loc[t].newEnv.ents, k)

\* an envp with the single entry LD_PRELOAD=u.so has been patched in a
\* process without a preload of its own
C14_Witness ==
  \E t \in Threads :
    /\ Patched(t)
    /\ call[t].envp = Env(<<Entry(LD_PRELOAD, << <<"u.so">> >>)>>)
    /\ loc[t].added = 0
    /\ ~loc[t].envAtPatch[LD_PRELOAD].set
    /\ EntriesOf(loc[t].newEnv.ents, ENV_VAR_ORIG_LD_PRELOAD)
         = <<Entry(ENV_VAR_ORIG_LD_PRELOAD, << <<"u.so">> >>)>>

\* the pointer arrays the exec of t has built so far
ArraysBuilt(t) ==
  IF pc[t] = "e_copy" THEN << >>
  ELSE <<loc[t].argvArr, loc[t].envpArr>> \o
       (IF Patched(t) /\ loc[t].newEnvArr.asserted THEN <<loc[t].newEnvArr>>
        ELSE << >>)

\* C15 (vectors within capacity): every pointer array built during an exec
\* (the copy of argv with capacity argc + 32, the copy of envp and the
\* patched environment with capacity envc + 32) has its NULL at the index
\* equal to its number of entries, and that index is inside the array.
C15_VectorsWithinCapacity ==
  \A t \in Threads :
    call[t].op = "exec" =>
      \A i \in 1..Len(ArraysBuilt(t)) :
        /\ ArraysBuilt(t)[i].nullAt = Len(ArraysBuilt(t)[i].elems)
        /\ ArraysBuilt(t)[i].nullAt < ArraysBuilt(t)[i].len

\* the patched environment has as many entries as the array has slots, the
\* JASSERT passed, and the process runs on
C15_Witness ==
  \E t \in Threads :
    /\ Patched(t) /\ procStatus = "running"
    /\ loc[t].maxEnv = Len(copyEnv(call[t].envp).ents) + MAX_EXTRA_ENV
    /\ loc[t].newEnvArr.asserted
    /\ Len(loc[t].newEnv.ents) = loc[t].maxEnv

\* ------------------------------------------------------------------------
\* Claims about the lock, the descriptors and the order of steps (under Spec)
\* ------------------------------------------------------------------------
\* how often the step x is in a trace
Count(tr, x) == Cardinality({i \in 1..Len(tr) : tr[i] = x})

\* C16 (exactly-once release): on every path of fork() and of a fully
\* intercepted dmtcp_execvpe(), the short-lived capture included, a thread
\* releases the lock only after it acquired it, holds it exactly between
\* its acquisition and its release, and has released every acquisition
\* when the wrapper returns or the short-lived capture exits.
C16_ExactlyOnceRelease ==
  \A t \in Threads :
    LET acq == Count(trace[t], "lock")
        rel == Count(trace[t], "unlock")
    IN  /\ rel <= acq /\ acq <= 1
        /\ pc[t] # "gone" => ((t \in holders) <=> (acq - rel = 1))
        /\ pc[t] = "ret" => rel = acq
        /\ procStatus = "exited" /\ call[t].op = "exec" => rel = acq

\* an exec of a transparent-bypass name has failed and returned
C16_Witness ==
  \E t \in Threads :
    /\ pc[t] = "ret" /\ call[t].op = "exec"
    /\ Count(trace[t], "lock") = 1
    /\ IsBypassName(BaseName(loc[t].filename))
    /\ loc[t].osExec.called /\ loc[t].retVal = -1

\* the positions of fork() between the creation of the duplicate and its
\* close in the parent
DupLivePcs == {"f_fork", "f_parent", "f_close"}

\* C17 (connection hand-off): the duplicate of the coordinator connection
\* made before an intercepted fork is the child's primary connection and
\* stays open there, is closed in the parent once the parent's side of the
\* fork is done, and is open in the running parent only while a fork is
\* between the creation of the duplicate and its close.
C17_ConnectionHandOff ==
  /\ \A c \in children :
       c.kind = "fork" /\ c.sock # BadFd =>
         c.coordSock = c.sock /\ c.sock \in c.fds
  /\ \A t \in Threads :
       InterceptedFork(t) /\ pc[t] \in {"f_release", "ret"} =>
         childCoordinatorSocket \notin openFds
  /\ \A fd \in openFds \ {PROTECTED_COORD_FD, PROTECTED_LIFEBOAT_FD} :
       procStatus = "running" =>
       /\ fd = childCoordinatorSocket
       /\ \E t \in Threads : call[t].op = "fork" /\ pc[t] \in DupLivePcs

\* a fork went through with a duplicate: its child has the duplicate as
\* primary connection and the parent, back from fork(), has closed it
C17_Witness ==
  \E t \in Threads, c \in children :
    /\ InterceptedFork(t) /\ pc[t] = "ret" /\ loc[t].childPid = c.pid
    /\ c.kind = "fork" /\ c.sock # BadFd /\ c.coordSock = c.sock
    /\ c.sock \in c.fds /\ c.sock \notin openFds

\* the exec of t made the lifeboat, reached the OS exec and is back from it
ExecFailedAfterLifeboat(t) ==
  /\ call[t].op = "exec" /\ pc[t] = "ret"
  /\ Count(trace[t], "getLifeboatFd") = 1
  /\ loc[t].osExec.called /\ loc[t].retVal = -1

\* C18 (lifeboat closed on failure): when an exec that created the
\* lifeboat descriptor fails and the wrapper returns, on any path of the
\* dispatcher, the transparent-bypass names included, the lifeboat
\* descriptor is closed.
C18_LifeboatClosedOnFailure ==
  \A t \in Threads :
    ExecFailedAfterLifeboat(t) => PROTECTED_LIFEBOAT_FD \notin openFds

\* the exec of a transparent-bypass name has failed after the lifeboat was
\* made
C18_Witness ==
  \E t \in Threads :
    /\ ExecFailedAfterLifeboat(t)
    /\ IsBypassName(BaseName(loc[t].filename))
    /\ loc[t].newFilename = << >>

\* the steps of the child of an intercepted fork, in order
ChildSteps ==
  <<"resetLocks", "UniquePid_resetOnFork", "initializeLogFile",
    "ProcessInfo_resetOnFork", "CoordinatorAPI_resetOnFork",
    "DmtcpWorker_resetOnFork", "ThreadList_resetOnFork", "return">>

\* the steps that need the child's identity or its locks
DependentSteps ==
  {"initializeLogFile", "ProcessInfo_resetOnFork", "CoordinatorAPI_resetOnFork",
   "DmtcpWorker_resetOnFork", "ThreadList_resetOnFork", "return"}

AfterPreExecPcs ==
  {"x_dispatch", "x_transparent", "x_short", "x_short_release",
   "x_short_exit", "x_exec", "x_failed"}

\* the steps that must come after PRE_EXEC
RewritingSteps ==
  {"patchArgvIfSetuid", "patchUserEnv", "real_execvpe", "unsetenv", "popen"}

\* the exec of t passed the checkpoint, self-tool and relay-tool checks
PassedChecks(t) == call[t].op = "exec" /\ Count(trace[t], "lock") = 1

RelayStep(t) ==
  /\ pc[t] \in {"x_relay", "x_relay_fork"}
  /\ pc'[t] # pc[t] /\ call'[t].op = "exec"

\* thread t enters dmtcp_execvpe() with the base name dmtcp_command while
\* no checkpoint or restart is in progress
RelayEntry(t) ==
  /\ pc[t] = "idle" /\ call'[t].op = "exec"
  /\ BaseName(call'[t].filename) = <<"dmtcp_command">>
  /\ ~isPerformingCkptRestart

\* C21 (relay-tool relaunch): an exec of dmtcp_command with no checkpoint
\* in progress takes the relay path; there the coordinator connection is
\* closed first, the raw fork is called once, the forking process exits,
\* and the child calls the OS exec with the caller's filename, argv and
\* envp; no step of the path takes the lock, makes the lifeboat, changes
\* the environment or fires PRE_EXEC.
C21_RelayRelaunch ==
  [][\A t \in Threads :
       /\ RelayEntry(t) => pc'[t] = "x_relay" /\ trace'[t] = << >>
       /\ RelayStep(t) =>
            /\ UNCHANGED <<holders, procEnv, workerState, childTable>>
            /\ (PROTECTED_LIFEBOAT_FD \in openFds')
                 = (PROTECTED_LIFEBOAT_FD \in openFds)
            /\ pc[t] = "x_relay" =>
                 /\ pc'[t] = "x_relay_fork"
                 /\ PROTECTED_COORD_FD \notin openFds'
                 /\ trace'[t] = <<"close_coord">>
                 /\ UNCHANGED <<children, procStatus>>
            /\ pc[t] = "x_relay_fork" =>
                 /\ PROTECTED_COORD_FD \notin openFds
                 /\ pc'[t] = "gone"
                 /\ call'[t].filename = call[t].filename
                 /\ \/ /\ procStatus' = "aborted"
                       /\ children' = children
                       /\ trace'[t] = <<"close_coord", "real_fork", "JASSERT">>
                    \/ /\ procStatus' = "exited"
                       /\ trace'[t] = <<"close_coord", "real_fork", "real_exit">>
                       /\ \E c \in children' \ children :
                            /\ children' = children \cup {c}
                            /\ c.kind = "relay"
                            /\ c.exec = OsExec(call'[t].filename,
                                                call'[t].argv, call'[t].envp)
                            /\ c.holders \subseteq holders
                            /\ PROTECTED_COORD_FD \notin c.fds]_vars

\* the relay path has been taken to its end: the process has exited and
\* its child has called the OS exec of dmtcp_command
C21_Witness ==
  \E t \in Threads, c \in children :
    /\ call[t].op = "exec" /\ BaseName(call[t].filename) = <<"dmtcp_command">>
    /\ procStatus = "exited"
    /\ trace[t] = <<"close_coord", "real_fork", "real_exit">>
    /\ c.kind = "relay" /\ c.exec.called /\ c.exec.file = call[t].filename

\* C22 (child re-initialisation only for intercepted forks): the body of
\* pthread_atfork_child runs only in the child of the _real_fork of an
\* intercepted fork(), and once there; the child of the bypass fork or of
\* the relay fork keeps the identity and the coordinator connection it
\* inherited.
C22_ReinitOnlyForInterceptedFork ==
  \A c \in children :
    /\ Count(c.trace, "resetLocks") <= 1
    /\ Count(c.trace, "UniquePid_resetOnFork") <= 1
    /\ Count(c.trace, "CoordinatorAPI_resetOnFork") <= 1
    /\ c.kind # "fork" =>
         /\ ~c.atforkRan
         /\ c.identity = thisProcess
         /\ c.coordSock = PROTECTED_COORD_FD

\* the child of the relay fork has run the body of pthread_atfork_child
\* and has the connection duplicated for another thread's fork
C22_Witness ==
  \E c \in children :
    /\ c.kind = "relay" /\ c.atforkRan
    /\ c.coordSock = c.sock /\ c.sock # BadFd
    /\ c.identity = UniquePid(thisProcess.hostid, c.pid, c.child_time)

\* the base names of the tools that must not run under checkpoint control
SelfToolNames ==
  {<<"dmtcp_coordinator">>, <<"dmtcp_launch">>, <<"dmtcp_restart">>,
   <<"mtcp_restart">>}

\* C24 (no self-tool reaches the OS exec): on every exec entered while no
\* checkpoint or restart is in progress, the filename given to the OS exec
\* never has a base name among the self-tools, also when a PRE_EXEC
\* subscriber wrote another filename.
C24_NoSelfToolExec ==
  \A t \in Threads :
    call[t].op = "exec" /\ ~loc[t].ckpt /\ loc[t].osExec.called =>
      BaseName(loc[t].osExec.file) \notin SelfToolNames

\* an exec of /bin/ls whose filename a subscriber rewrote has called the
\* OS exec of dmtcp_restart
C24_Witness ==
  \E t \in Threads :
    /\ call[t].op = "exec" /\ ~loc[t].ckpt /\ call[t].filename = F_ls
    /\ Count(trace[t], "PRE_EXEC") = 1
    /\ loc[t].osExec.called /\ loc[t].osExec.file = F_restart

\* C23 (checkpoint is not blocked forever): under fair scheduling, a
\* thread that holds the lock taken by fork() or dmtcp_execvpe() comes to
\* release it, or the process image ends.
C23_LockEventuallyReleased ==
  \A t \in Threads :
    (t \in holders) ~> (t \notin holders \/ procStatus # "running")

\* a thread is back from a failed exec of a bypass name, idle again, and
\* still holds the lock
C23_Witness ==
  \E t \in Threads :
    /\ pc[t] = "idle" /\ t \in holders /\ procStatus = "running"
    /\ callsLeft = 0

====
